---------------------------- MODULE Spec2Model ----------------------------
(***************************************************************************)
(* Portico: deterministic mapping of a package name to a development port  *)
(* (hash -> reducer -> basePort + offset) and the import-map analysis      *)
(* built on it.                                                            *)
(*                                                                         *)
(* Number representation.  A JavaScript uint32 (the result of `x >>> 0`)   *)
(* is modelled as its bit pattern, a pair <<hi, lo>> of 16-bit halves, so  *)
(* that every 32-bit wraparound of the source is computed exactly.  The    *)
(* signed int32 that Math.imul returns has the same bit pattern as the     *)
(* unsigned product modulo 2^32, and `(s + c) >>> 0` depends on s only     *)
(* modulo 2^32, so the pattern is all the source ever observes.            *)
(* A package name is the sequence of its UTF-16 code units.                *)
(***************************************************************************)
EXTENDS Integers, Sequences, FiniteSets, TLC

VARIABLES
    REDUCERS,       \* the own properties of the exported REDUCERS table
    packageName,    \* the arguments of the caller's getPort call
    basePort,
    range,
    hash,
    reducer,
    first,          \* what the first getPort(packageName, ...) call did
    result,         \* what the latest getPort(packageName, ...) call did
    calls,          \* how many getPort(packageName, ...) calls were made
    other,          \* the latest getPort call with other arguments
    imports,        \* the `imports` value of the parsed import map file
    analysis,       \* what analyzeImportMap did
    REDUCER_NAMES,  \* Object.keys(REDUCERS) when the command line module loaded
    bench,          \* what the benchmark command did
    arg,            \* the arguments of direct calls of the table functions
    value,          \* what the direct calls returned
    invoked         \* the table functions the latest call of the GetPort step
                    \* invoked

vars == <<REDUCERS, packageName, basePort, range, hash, reducer,
          first, result, calls, other, imports, analysis, REDUCER_NAMES,
          bench, arg, value, invoked>>

----------------------------------------------------------------------------
(* 32-bit words *)

RECURSIVE Pow2(_)
Pow2(k) == IF k = 0 THEN 1 ELSE 2 * Pow2(k - 1)

B8 == Pow2(8)
B15 == Pow2(15)
B16 == Pow2(16)

Hi(w) == w[1]
Lo(w) == w[2]

\* the uint32 with value n, for 0 <= n < 2^31
ToWord(n) == <<n \div B16, n % B16>>

\* the full 32-bit product of two 16-bit values, as a word
Mul16(x, y) ==
    LET p0 == (x % B8) * y
        p1 == (x \div B8) * y
        low == p0 + (p1 % B8) * B8
    IN  <<low \div B16 + p1 \div B8, low % B16>>

\* a product that is not cut to its low 32 bits
imulWide(a, b) ==
    LET ll == Mul16(Lo(a), Lo(b))
        hl == Mul16(Hi(a), Lo(b))
        lh == Mul16(Lo(a), Hi(b))
    IN  <<Hi(ll) + Lo(hl) + Lo(lh), Lo(ll)>>

\* Math.imul(a, b): the low 32 bits of the product
imul(a, b) ==
    LET ll == Mul16(Lo(a), Lo(b))
        hl == Mul16(Hi(a), Lo(b))
        lh == Mul16(Lo(a), Hi(b))
    IN  <<(Hi(ll) + Lo(hl) + Lo(lh)) % B16, Lo(ll)>>

\* (a + b) >>> 0 for two words
AddWrap(a, b) ==
    LET low == Lo(a) + Lo(b)
    IN  <<(Hi(a) + Hi(b) + low \div B16) % B16, low % B16>>

\* w & 0x7fffffff: the low 31 bits in the place of the remainder
ModLow31Bits(w) == (Hi(w) % B15) * B16 + Lo(w)

\* w % 2147483647 (2^31 = 1 modulo 2^31 - 1, so w = topbit + low31)
Mod2147483647(w) ==
    LET top == Hi(w) \div B15
        low31 == (Hi(w) % B15) * B16 + Lo(w)
    IN  IF low31 = (B15 - 1) * B16 + (B16 - 1)
        THEN top
        ELSE IF top = 1 /\ low31 = (B15 - 1) * B16 + (B16 - 2)
             THEN 0
             ELSE low31 + top

\* w % m for a word w and 1 <= m < 2^15
WordMod(w, m) == ((Hi(w) % m) * (B16 % m) + Lo(w)) % m

\* w << 1 as a 32-bit pattern
ShiftLeft1(w) == <<(Hi(w) * 2 + Lo(w) \div B15) % B16, (Lo(w) * 2) % B16>>

RECURSIVE Xor16(_, _, _)
Xor16(x, y, bits) ==
    IF bits = 0 THEN 0
    ELSE ((x + y) % 2) + 2 * Xor16(x \div 2, y \div 2, bits - 1)

\* (a ^ b) >>> 0
XorWord(a, b) == <<Xor16(Hi(a), Hi(b), 16), Xor16(Lo(a), Lo(b), 16)>>

\* w >>> s: JavaScript uses the shift count modulo 32
ShiftRightUnsigned(w, s) ==
    LET c == s % 32
    IN  IF c = 0 THEN w
        ELSE IF c >= 16 THEN <<0, Hi(w) \div Pow2(c - 16)>>
        ELSE <<Hi(w) \div Pow2(c),
               (Hi(w) % Pow2(c)) * Pow2(16 - c) + Lo(w) \div Pow2(c)>>

\* Math.floor in the place of Math.ceil
RECURSIVE FloorLog2(_)
FloorLog2(r) == IF r <= 1 THEN 0 ELSE 1 + FloorLog2(r \div 2)

\* Math.ceil(Math.log2(range)) for an integer range >= 1
RECURSIVE CeilLog2(_)
CeilLog2(r) == IF r <= 1 THEN 0 ELSE 1 + CeilLog2((r + 1) \div 2)

----------------------------------------------------------------------------
(* JavaScript values *)

\* a JavaScript number that is an integer, or NaN
Num(n) == [nan |-> FALSE, val |-> n]
NaN == [nan |-> TRUE, val |-> 0]

\* a + b, a < b and a >= b on numbers: NaN is absorbing for +, and every
\* comparison with NaN is false
NumAdd(a, b) == IF a.nan \/ b.nan THEN NaN ELSE Num(a.val + b.val)
NumLt(a, b) == ~a.nan /\ ~b.nan /\ a.val < b.val
NumGe(a, b) == ~a.nan /\ ~b.nan /\ a.val >= b.val

\* a value passed as packageName
JsString(chars) == [type |-> "string", chars |-> chars]
JsNull == [type |-> "null", chars |-> <<>>]
JsNumber == [type |-> "number", chars |-> <<>>]

\* !v is false: a non-empty string, or a non-zero number such as 5
Truthy(v) == (v.type = "string" /\ v.chars # <<>>) \/ v.type = "number"

\* a value found in a function table: fn names the function (with the primes
\* of a prime-mix hash, or the value a plugged-in constant reducer returns)
Fn(fn, primes, ret) == [fn |-> fn, primes |-> primes, ret |-> ret]

\* what every object literal inherits from Object.prototype, for two of its
\* property names: `__proto__` is Object.prototype itself, an object that is
\* not callable; `hasOwnProperty` is a function that throws a TypeError when
\* it is called without a receiver. (constructor, toString, valueOf, ... are
\* inherited in the same way.)
ObjectPrototype ==
    [__proto__ |-> Fn("Object.prototype", <<>>, NaN),
     hasOwnProperty |-> Fn("hasOwnProperty", <<>>, NaN)]

\* a fallback that is the reducer of the caller's previous other call instead
\* of the default
LookupStale(table, key, default) ==
    IF key \in DOMAIN table THEN table[key]
    ELSE IF key \in DOMAIN ObjectPrototype THEN ObjectPrototype[key]
    ELSE IF other.reducer \in DOMAIN table THEN table[other.reducer]
    ELSE table[default]

\* table[key] || table[default]: an own property, else an inherited one
\* (every one of them is truthy), else undefined and so the default
Lookup(table, key, default) ==
    IF key \in DOMAIN table THEN table[key]
    ELSE IF key \in DOMAIN ObjectPrototype THEN ObjectPrototype[key]
    ELSE table[default]

\* calling f(...) as a plain function throws a TypeError
CallThrows(f) == f.fn \in {"Object.prototype", "hasOwnProperty"}

----------------------------------------------------------------------------
(* Hash functions *)

\* an omitted optional argument
Undefined == <<>>

\* the loop body without the character code: the hash depends on the length only
primeHashStepNoCode(acc, prime, code) == imul(acc, ToWord(prime))

\* one iteration of the loop body:
\*   hash = (Math.imul(hash, prime) + name.charCodeAt(i)) >>> 0
primeHashStep(acc, prime, code) ==
    AddWrap(imul(acc, ToWord(prime)), ToWord(code))

\* the loop with primes[0] at every position instead of primes[i % length]
RECURSIVE primeHashLoopFirstPrime(_, _, _, _)
primeHashLoopFirstPrime(name, primes, i, acc) ==
    IF i > Len(name) THEN acc
    ELSE LET next == primeHashStep(acc, primes[1], name[i])
         IN  IF Hi(next) >= 0
             THEN primeHashLoopFirstPrime(name, primes, i + 1, next)
             ELSE next

\* the loop over i = 0 .. name.length - 1 (positions are 1-based here); the
\* test on next only makes the evaluator compute it before the next iteration
RECURSIVE primeHashLoop(_, _, _, _)
primeHashLoop(name, primes, i, acc) ==
    IF i > Len(name) THEN acc
    ELSE LET next == primeHashStep(acc, primes[((i - 1) % Len(primes)) + 1],
                                   name[i])
         IN  IF Hi(next) >= 0 THEN primeHashLoop(name, primes, i + 1, next)
             ELSE next

\* primeHash(name, primes, initial)
primeHash(name, primes, initial) ==
    primeHashLoop(name, primes, 1,
                  ToWord(IF initial = Undefined THEN Len(name) ELSE initial[1]))

\* phi = 2654435761 = 0x9E3779B1
phi == <<40503, 31153>>

HashDouble(name) ==
    LET hash1 == Mod2147483647(primeHash(name, <<31>>, Undefined))
        hash2 == Mod2147483647(primeHash(name, <<37>>, <<1>>))
        combined == XorWord(ToWord(hash1), ShiftLeft1(ToWord(hash2)))
    IN  imul(combined, phi)

\* the own properties of the HASH table
HASH ==
    [sdbm |-> Fn("prime", <<65599>>, NaN),
     safe |-> Fn("prime", <<23>>, NaN),
     twin |-> Fn("prime", <<31, 37>>, NaN),
     cascade |-> Fn("prime", <<31, 37, 41, 43, 47>>, NaN),
     double |-> Fn("double", <<>>, NaN)]

\* hashFunction(packageName) for an own property of HASH
CallHash(h, name) ==
    IF h.fn = "double" THEN HashDouble(name)
    ELSE primeHash(name, h.primes, Undefined)

----------------------------------------------------------------------------
(* Reducers *)

\* constant = 2654435769 = 0x9E3779B9
KnuthConstant == <<40503, 31161>>
\* a = 1664525 = 0x0019660D, c = 1013904223 = 0x3C6EF35F
LcgA == <<25, 26125>>
LcgC == <<15470, 62303>>

\* hash % (range + 1): an off-by-one modulus
ReduceModuloOffByOne(hashValue, r) == WordMod(hashValue, r + 1)

ReduceModulo(hashValue, r) == WordMod(hashValue, r)

\* multiplied >>> (32 - Math.ceil(Math.log2(range))): the value that the
\* final modulo of knuth reduces
KnuthShifted(hashValue, r) ==
    ShiftRightUnsigned(imul(hashValue, KnuthConstant), 32 - CeilLog2(r))

ReduceKnuth(hashValue, r) == WordMod(KnuthShifted(hashValue, r), r)

\* Math.round in the place of Math.floor
ReduceLcgRound(hashValue, r) ==
    LET stepped == AddWrap(imul(LcgA, hashValue), LcgC)
    IN  ((Hi(stepped) * r + (Lo(stepped) * r) \div B16) + B15) \div B16

\* Math.floor((result / 0x100000000) * range): result / 2^32 is exact in a
\* double, and result * range < 2^46 has at most 46 significant bits, so the
\* product is exact too and the floor is that of the rational value
ReduceLcg(hashValue, r) ==
    LET stepped == AddWrap(imul(LcgA, hashValue), LcgC)
    IN  (Hi(stepped) * r + (Lo(stepped) * r) \div B16) \div B16

\* the built-in own properties of the REDUCERS table
BuiltinReducers ==
    [modulo |-> Fn("modulo", <<>>, NaN),
     knuth |-> Fn("knuth", <<>>, NaN),
     lcg |-> Fn("lcg", <<>>, NaN)]

\* reducerFunction(hashValue, range) for an own property of REDUCERS; a
\* reducer plugged in by a caller is a constant function `() => ret`
CallReducer(red, hashValue, r) ==
    CASE red.fn = "modulo" -> Num(ReduceModulo(hashValue, r))
      [] red.fn = "knuth" -> Num(ReduceKnuth(hashValue, r))
      [] red.fn = "lcg" -> Num(ReduceLcg(hashValue, r))
      [] OTHER -> red.ret

----------------------------------------------------------------------------
(* getPort and analyzeImportMap *)

MinBasePort == 1024
MaxBasePort == 65535
MinRange == 1
MaxRange == 10000
DefaultBasePort == 3001
DefaultRange == 1997

InvalidIdentifier == "Package name must be a non-empty string"
InvalidBasePort == "Base port must be between 1024 and 65535"
InvalidRange == "Port range must be between 1 and 10000"
ImplementationInvariantViolated ==
    "generated invalid port. This indicates a bug in the implementation."
MalformedInput == "Import map must have an \"imports\" object"
TypeError == "TypeError"

\* how a getPort call ends
Return(port) == [kind |-> "return", error |-> "", port |-> port]
Throw(error) == [kind |-> "throw", error |-> error, port |-> NaN]
NoCall == [kind |-> "none", error |-> "", port |-> NaN]

\* the typeof test alone
InvalidNameTypeOnly(name) == name.type # "string"

\* !packageName || typeof packageName !== 'string'
InvalidName(name) == ~Truthy(name) \/ name.type # "string"

\* basePort <= 1024 || basePort >= 65535
InvalidBaseStrict(base) == base <= MinBasePort \/ base >= MaxBasePort

\* basePort < 1024 || basePort > 65535
InvalidBase(base) == base < MinBasePort \/ base > MaxBasePort

\* range < 1 || range > 1000
InvalidRngThousand(rng) == rng < MinRange \/ rng > MaxRange \div 10

\* range < 1 || range > 10000
InvalidRng(rng) == rng < MinRange \/ rng > MaxRange

\* port < basePort || port >= basePort + range
OutOfRange(port, base, rng) ==
    NumLt(port, Num(base)) \/ NumGe(port, Num(base + rng))

\* how a getPort call ran: how it ended, and the functions of the tables it
\* invoked on the way, in the order of the calls
Ran(out, fns) == [out |-> out, invoked |-> fns]

\* f(...) enters the function f; Object.prototype is not callable, so the
\* call throws before any function is entered
Entered(f, place) == IF f.fn = "Object.prototype" THEN <<>> ELSE <<place>>

\* the hash is computed as soon as the name is known to be a string, before
\* basePort and range are validated
getPortRunHashFirst(name, base, rng, hashName, reducerName) ==
    IF InvalidName(name) THEN Ran(Throw(InvalidIdentifier), <<>>)
    ELSE
      LET hashFunction == Lookup(HASH, hashName, "twin")
          reducerFunction == Lookup(REDUCERS, reducerName, "knuth")
      IN  IF CallThrows(hashFunction)
          THEN Ran(Throw(TypeError), Entered(hashFunction, "hashFunction"))
          ELSE IF InvalidBase(base)
          THEN Ran(Throw(InvalidBasePort), <<"hashFunction">>)
          ELSE IF InvalidRng(rng)
          THEN Ran(Throw(InvalidRange), <<"hashFunction">>)
          ELSE IF CallThrows(reducerFunction)
          THEN Ran(Throw(TypeError),
                   <<"hashFunction">>
                      \o Entered(reducerFunction, "reducerFunction"))
          ELSE
            LET hashValue == CallHash(hashFunction, name.chars)
                offset == CallReducer(reducerFunction, hashValue, rng)
                port == NumAdd(Num(base), offset)
            IN  Ran(IF OutOfRange(port, base, rng)
                    THEN Throw(ImplementationInvariantViolated)
                    ELSE Return(port),
                    <<"hashFunction", "reducerFunction">>)

\* the lookups, the two calls and the safety check, after the validation
getPortCompute(name, base, rng, hashName, reducerName) ==
    LET hashFunction == Lookup(HASH, hashName, "twin")
        reducerFunction == Lookup(REDUCERS, reducerName, "knuth")
    IN  IF CallThrows(hashFunction)
        THEN Ran(Throw(TypeError), Entered(hashFunction, "hashFunction"))
        ELSE IF CallThrows(reducerFunction)
        THEN Ran(Throw(TypeError),
                 <<"hashFunction">>
                    \o Entered(reducerFunction, "reducerFunction"))
        ELSE
          LET hashValue == CallHash(hashFunction, name.chars)
              offset == CallReducer(reducerFunction, hashValue, rng)
              port == NumAdd(Num(base), offset)
          IN  Ran(IF OutOfRange(port, base, rng)
                  THEN Throw(ImplementationInvariantViolated)
                  ELSE Return(port),
                  <<"hashFunction", "reducerFunction">>)

\* the range is validated before the base port
getPortRunRangeFirst(name, base, rng, hashName, reducerName) ==
    IF InvalidName(name) THEN Ran(Throw(InvalidIdentifier), <<>>)
    ELSE IF InvalidRng(rng) THEN Ran(Throw(InvalidRange), <<>>)
    ELSE IF InvalidBase(base) THEN Ran(Throw(InvalidBasePort), <<>>)
    ELSE getPortCompute(name, base, rng, hashName, reducerName)

getPortRun(name, base, rng, hashName, reducerName) ==
    IF InvalidName(name) THEN Ran(Throw(InvalidIdentifier), <<>>)
    ELSE IF InvalidBase(base) THEN Ran(Throw(InvalidBasePort), <<>>)
    ELSE IF InvalidRng(rng) THEN Ran(Throw(InvalidRange), <<>>)
    ELSE getPortCompute(name, base, rng, hashName, reducerName)

\* getPort(packageName, basePort, range, hash, reducer): what the caller sees
getPort(name, base, rng, hashName, reducerName) ==
    getPortRun(name, base, rng, hashName, reducerName).out

\* the value of the parameter at place i of a call with the arguments args:
\* the default when the argument is omitted
Param(args, i, default) == IF i > Len(args) THEN default ELSE args[i]

\* the defaults of the first release: basePort = 4200, range = 200
getPortCallOldDefaults(args) ==
    getPort(args[1], Param(args, 2, 4200), Param(args, 3, 200),
            Param(args, 4, "twin"), Param(args, 5, "knuth"))

\* getPort(...args): basePort = 3001, range = 1997, hash = 'twin',
\* reducer = 'knuth' for the arguments that are omitted
getPortCall(args) ==
    getPort(args[1], Param(args, 2, DefaultBasePort),
            Param(args, 3, DefaultRange), Param(args, 4, "twin"),
            Param(args, 5, "knuth"))

----------------------------------------------------------------------------
(* Property order of JavaScript objects *)

IsDigit(c) == 48 <= c /\ c <= 57

\* "4294967294", the largest array index
MaxArrayIndex == <<52, 50, 57, 52, 57, 54, 55, 50, 57, 52>>

\* a < b for two canonical decimal strings: shorter first, then by digits
IndexLess(a, b) ==
    \/ Len(a) < Len(b)
    \/ /\ Len(a) = Len(b)
       /\ \E i \in 1 .. Len(a) :
            /\ a[i] < b[i]
            /\ \A j \in 1 .. i - 1 : a[j] = b[j]

\* the key is an integer index: a canonical numeric string up to 2^32 - 2
IsArrayIndex(k) ==
    /\ Len(k) > 0
    /\ \A i \in 1 .. Len(k) : IsDigit(k[i])
    /\ Len(k) = 1 \/ k[1] # 48
    /\ k = MaxArrayIndex \/ IndexLess(k, MaxArrayIndex)

IsNamedKey(k) == ~IsArrayIndex(k)

RECURSIVE SortIndices(_)
SortIndices(ks) ==
    IF ks = <<>> THEN <<>>
    ELSE LET least == CHOOSE k \in {ks[i] : i \in 1 .. Len(ks)} :
                        \A i \in 1 .. Len(ks) : ~IndexLess(ks[i], k)
             Rest(k) == k # least
         IN  <<least>> \o SortIndices(SelectSeq(ks, Rest))

\* Object.keys of an object whose properties were created in the order ks
\* (ks has no duplicates): integer indices ascending, then the other keys in
\* creation order
ObjectKeys(ks) ==
    SortIndices(SelectSeq(ks, IsArrayIndex)) \o SelectSeq(ks, IsNamedKey)

----------------------------------------------------------------------------
(* analyzeImportMap, after the file was read and parsed *)

Analysed(entries, ports) ==
    [kind |-> "return", error |-> "", entries |-> entries, ports |-> ports]
AnalysisThrow(error) ==
    [kind |-> "throw", error |-> error, entries |-> <<>>, ports |-> <<>>]
NoAnalysis == [kind |-> "none", error |-> "", entries |-> <<>>, ports |-> <<>>]

\* !importMap.imports || typeof importMap.imports !== 'object'
InvalidImports(imp) == imp.type \notin {"object", "array"}

\* the property key of acc[port] comes before that of acc[q] in acc
KeyBefore(p, q) == ~p.nan /\ (q.nan \/ p.val < q.val)

\* acc[port] = [packageName]: the earlier packages of the port are lost
portsStepOverwrite(acc, entry) ==
    IF \E j \in 1 .. Len(acc) : acc[j].port = entry.port
    THEN [j \in 1 .. Len(acc) |->
            IF acc[j].port = entry.port
            THEN [acc[j] EXCEPT !.packages = <<entry.name>>]
            ELSE acc[j]]
    ELSE Append(acc, [port |-> entry.port, packages |-> <<entry.name>>])

\* one list per package: the packages of a port are not grouped
portsStepNoGroup(acc, entry) ==
    Append(acc, [port |-> entry.port, packages |-> <<entry.name>>])

\* acc[port] = [...(acc[port] || []), packageName]
portsStep(acc, entry) ==
    IF \E j \in 1 .. Len(acc) : acc[j].port = entry.port
    THEN [j \in 1 .. Len(acc) |->
            IF acc[j].port = entry.port
            THEN [acc[j] EXCEPT !.packages = Append(@, entry.name)]
            ELSE acc[j]]
    ELSE LET Before(e) == KeyBefore(e.port, entry.port)
             After(e) == ~KeyBefore(e.port, entry.port)
         IN  SelectSeq(acc, Before)
                \o <<[port |-> entry.port, packages |-> <<entry.name>>]>>
                \o SelectSeq(acc, After)

\* Object.entries(entries).reduce(..., {})
RECURSIVE portsReduce(_, _, _)
portsReduce(entries, i, acc) ==
    IF i > Len(entries) THEN acc
    ELSE portsReduce(entries, i + 1, portsStep(acc, entries[i]))

\* getPort(packageName, basePort, range): hash and reducer not passed on
entryPortDefaults(name, base, rng, hashName, reducerName) ==
    getPort(JsString(name), base, rng, "twin", "knuth")

\* an empty key gets the base port instead of the failure of getPort
entryPortEmptyAsBase(name, base, rng, hashName, reducerName) ==
    IF name = <<>> THEN Return(Num(base))
    ELSE getPort(JsString(name), base, rng, hashName, reducerName)

\* the callback of Object.keys(importMap.imports).map(...)
entryPort(name, base, rng, hashName, reducerName) ==
    getPort(JsString(name), base, rng, hashName, reducerName)

\* the ports reduce over the entries, and the object that is returned
analyzePorts(entries) == Analysed(entries, portsReduce(entries, 1, <<>>))

\* the entries from the outcomes outs of the getPort calls on names: the
\* first call that throws ends the map
analyzeEntries(names, outs) ==
    IF \E i \in 1 .. Len(outs) : outs[i].kind = "throw"
    THEN AnalysisThrow(outs[CHOOSE i \in 1 .. Len(outs) :
                              /\ outs[i].kind = "throw"
                              /\ \A j \in 1 .. i - 1 :
                                    outs[j].kind # "throw"].error)
    ELSE analyzePorts([i \in 1 .. Len(names) |->
                        [name |-> names[i], port |-> outs[i].port]])

\* Object.keys(importMap.imports).map(...) over the keys names
analyzeNames(names, base, rng, hashName, reducerName) ==
    analyzeEntries(names,
                   [i \in 1 .. Len(names) |->
                     entryPort(names[i], base, rng, hashName, reducerName)])

analyzeImportMap(imp, base, rng, hashName, reducerName) ==
    IF InvalidImports(imp) THEN AnalysisThrow(MalformedInput)
    ELSE analyzeNames(ObjectKeys(imp.keys), base, rng, hashName, reducerName)

\* analyzeImportMap(path, ...args) with the same defaults, on a file whose
\* `imports` value is imp
analyzeImportMapCall(imp, args) ==
    analyzeImportMap(imp, Param(args, 1, DefaultBasePort),
                     Param(args, 2, DefaultRange), Param(args, 3, "twin"),
                     Param(args, 4, "knuth"))

----------------------------------------------------------------------------
(* The benchmark command of the command line *)

\* Object.keys(HASH)
HASH_NAMES == <<"sdbm", "safe", "twin", "cascade", "double">>

\* Object.keys of a REDUCERS table: the built-in keys in creation order, then
\* the key that was plugged in
ReducerKeys(table) ==
    <<"modulo", "knuth", "lcg">>
        \o (IF "buggy" \in DOMAIN table THEN <<"buggy">> ELSE <<>>)

\* name.charAt(0).toUpperCase() + name.slice(1), on the names of the tables
Capitalize(name) ==
    [sdbm |-> "Sdbm", safe |-> "Safe", twin |-> "Twin",
     cascade |-> "Cascade", double |-> "Double", modulo |-> "Modulo",
     knuth |-> "Knuth", lcg |-> "Lcg", buggy |-> "Buggy"][name]

\* name.toLowerCase(), on the names of the results
ToLowerCase(name) ==
    [Sdbm |-> "sdbm", Safe |-> "safe", Twin |-> "twin",
     Cascade |-> "cascade", Double |-> "double", Modulo |-> "modulo",
     Knuth |-> "knuth", Lcg |-> "lcg", Buggy |-> "buggy"][name]

MinCliBasePort == 1
MaxPortNumber == 65535
MinCliRange == 1

InvalidCliBasePort == "Error: Base port must be a number between 1 and 65535"
InvalidCliRange == "Range must be a positive number"
PortNumberExceeded ==
    "Error: Base port + range exceeds maximum port number (65535)"

\* one element of results, and one console.warn of a failed combination
BenchmarkResult(h, r, collisions, uniquePorts) ==
    [hash |-> Capitalize(h), reducer |-> Capitalize(r),
     collisions |-> collisions, uniquePorts |-> uniquePorts]
Warning(h, r, error) == [hash |-> h, reducer |-> r, error |-> error]

\* how the benchmark command ends: the sorted results with the warnings and
\* the summary (best is results[0], worst the last of two or more results,
\* <<>> stands for null), or the process exits with an error message
BenchDone(results, warnings) ==
    [kind |-> "done", error |-> "", results |-> results,
     warnings |-> warnings,
     best |-> IF Len(results) > 0 THEN <<results[1]>> ELSE <<>>,
     worst |-> IF Len(results) > 1 THEN <<results[Len(results)]>> ELSE <<>>]
BenchExit(error) ==
    [kind |-> "exit", error |-> error, results |-> <<>>, warnings |-> <<>>,
     best |-> <<>>, worst |-> <<>>]
NoBench ==
    [kind |-> "none", error |-> "", results |-> <<>>, warnings |-> <<>>,
     best |-> <<>>, worst |-> <<>>]

\* the number of packages beyond the first of each port
RECURSIVE collisionsExcess(_)
collisionsExcess(ports) ==
    IF ports = <<>> THEN 0
    ELSE (Len(Head(ports).packages) - 1) + collisionsExcess(Tail(ports))

\* the number of ports with more than one package
RECURSIVE collisionsPorts(_)
collisionsPorts(ports) ==
    IF ports = <<>> THEN 0
    ELSE (IF Len(Head(ports).packages) > 1 THEN 1 ELSE 0)
         + collisionsPorts(Tail(ports))

\* Object.values(analysis.ports).filter((packages) => packages.length > 1)
\*     .reduce((total, packages) => total + packages.length, 0)
RECURSIVE collisionsOf(_)
collisionsOf(ports) ==
    IF ports = <<>> THEN 0
    ELSE (IF Len(Head(ports).packages) > 1
          THEN Len(Head(ports).packages) ELSE 0)
         + collisionsOf(Tail(ports))

\* Object.keys(analysis.ports).length
uniquePortsOf(ports) == Len(ports)

\* each hash with one reducer only
CombinationsZip(reducerNames) ==
    [k \in 1 .. Len(HASH_NAMES) |->
        <<HASH_NAMES[k], reducerNames[((k - 1) % Len(reducerNames)) + 1]>>]

\* for (const hash of HASH_NAMES) for (const reducer of REDUCER_NAMES): the
\* combinations in the order the nested loops visit them
Combinations(reducerNames) ==
    [k \in 1 .. Len(HASH_NAMES) * Len(reducerNames) |->
        <<HASH_NAMES[((k - 1) \div Len(reducerNames)) + 1],
          reducerNames[((k - 1) % Len(reducerNames)) + 1]>>]

\* a failed combination is ranked with no collisions instead of being left out
benchStepKeepFailed(log, imp, base, rng, h, r) ==
    LET done == analyzeImportMap(imp, base, rng, h, r)
    IN  IF done.kind = "throw"
        THEN [results |-> Append(log.results, BenchmarkResult(h, r, 0, 0)),
              warnings |-> Append(log.warnings, Warning(h, r, done.error))]
        ELSE [log EXCEPT !.results =
                Append(@, BenchmarkResult(h, r, collisionsOf(done.ports),
                                          uniquePortsOf(done.ports)))]

\* results.push({...}) when the analysis returned, console.warn in the catch
\* block when it threw
benchPush(log, h, r, done) ==
    IF done.kind = "throw"
    THEN [log EXCEPT !.warnings = Append(@, Warning(h, r, done.error))]
    ELSE [log EXCEPT !.results =
            Append(@, BenchmarkResult(h, r, collisionsOf(done.ports),
                                      uniquePortsOf(done.ports)))]

\* the body of the loops: try { analyse, push the result } catch { warn }
benchStep(log, imp, base, rng, h, r) ==
    benchPush(log, h, r, analyzeImportMap(imp, base, rng, h, r))

RECURSIVE benchLoop(_, _, _, _, _, _)
benchLoop(combos, k, log, imp, base, rng) ==
    IF k > Len(combos) THEN log
    ELSE benchLoop(combos, k + 1,
                   benchStep(log, imp, base, rng, combos[k][1], combos[k][2]),
                   imp, base, rng)

\* a comparator that ranks fewer unique ports first
compareResultsFewerFirst(a, b) ==
    IF a.collisions # b.collisions THEN a.collisions - b.collisions
    ELSE a.uniquePorts - b.uniquePorts

\* the comparator of results.sort
compareResults(a, b) ==
    IF a.collisions # b.collisions THEN a.collisions - b.collisions
    ELSE b.uniquePorts - a.uniquePorts

\* Array.prototype.sort is stable: an element goes behind the elements that
\* do not compare greater than it
sortInsert(sorted, e) ==
    LET NotAfter(x) == compareResults(x, e) <= 0
        After(x) == compareResults(x, e) > 0
    IN  SelectSeq(sorted, NotAfter) \o <<e>> \o SelectSeq(sorted, After)

RECURSIVE sortLoop(_, _, _)
sortLoop(results, k, sorted) ==
    IF k > Len(results) THEN sorted
    ELSE sortLoop(results, k + 1, sortInsert(sorted, results[k]))

\* results.sort((a, b) => ...)
sortResults(results) == sortLoop(results, 1, <<>>)

\* results.sort(...) and the summary, after the loops
benchSummary(log) == BenchDone(sortResults(log.results), log.warnings)

\* the benchmark action on an import map file whose `imports` value is imp:
\* the option parsers, parsePortOptions, parseImportMap, the loops, the sort
\* and the summary
benchmark(imp, base, rng, reducerNames) ==
    IF base < MinCliBasePort \/ base > MaxPortNumber
    THEN BenchExit(InvalidCliBasePort)
    ELSE IF rng < MinCliRange THEN BenchExit(InvalidCliRange)
    ELSE IF base + rng > MaxPortNumber THEN BenchExit(PortNumberExceeded)
    ELSE IF imp.type = "undefined" THEN BenchExit(MalformedInput)
    ELSE benchSummary(benchLoop(Combinations(reducerNames), 1,
                                [results |-> <<>>, warnings |-> <<>>],
                                imp, base, rng))

----------------------------------------------------------------------------
(* The callers' inputs *)

MaxNameLen == 2

\* the code units of '1' and 'a'
Alphabet == {49, 97}

\* every string over Alphabet of at most n code units, "" included
Strings(n) == UNION {[1 .. k -> Alphabet] : k \in 0 .. n}

AppOne == <<97, 112, 112, 45, 111, 110, 101>>
AppTwo == <<97, 112, 112, 45, 116, 119, 111>>
TestName == <<116, 101, 115, 116>>
UnicodeName ==
    <<64, 20844, 21496, 47, 24212, 29992, 31243, 24207, 45, 27979, 35797>>

\* names the tests use: 'app-one', 'app-two', '@公司/应用程序-测试'
TestNames == {AppOne, AppTwo, UnicodeName}

PackageNames ==
    {JsString(n) : n \in Strings(MaxNameLen) \cup TestNames}
        \cup {JsNull, JsNumber}

BasePorts ==
    {MinBasePort - 1, MinBasePort, DefaultBasePort, MaxBasePort,
     MaxBasePort + 1}

Ranges == {MinRange - 1, MinRange, 2, DefaultRange, MaxRange, MaxRange + 1}

HashNames == DOMAIN HASH \cup {"invalid-hash", "hasOwnProperty"}

ReducerNames ==
    DOMAIN BuiltinReducers \cup {"invalid-reducer", "__proto__", "buggy"}

\* the names of the other getPort calls a session makes
OtherNames == {AppOne, AppTwo, <<97>>}

NoOther ==
    [name |-> <<>>, hash |-> "", reducer |-> "", at |-> 0, out |-> NoCall]
NoImports == [type |-> "undefined", keys |-> <<>>]
NoArg ==
    [kind |-> "none", name |-> <<>>, h |-> <<0, 0>>, r |-> 0, given |-> 0]
NoValue == [kind |-> "none", out |-> <<>>, first |-> <<>>, count |-> 0]

----------------------------------------------------------------------------
(* The steps of a caller *)

MaxCalls == 2

\* getPort(packageName, basePort, range, hash, reducer)
GetPort ==
    /\ calls < MaxCalls
    /\ result' = getPort(packageName, basePort, range, hash, reducer)
    /\ invoked' = getPortRun(packageName, basePort, range, hash,
                             reducer).invoked
    /\ first' = IF calls = 0 THEN result' ELSE first
    /\ calls' = calls + 1
    /\ UNCHANGED <<REDUCERS, packageName, basePort, range, hash, reducer,
                   other, imports, analysis>>
    /\ UNCHANGED <<REDUCER_NAMES, bench, arg, value>>

\* getPort(n, basePort, range, h, r): a call for another name or strategy,
\* made after the first getPort(packageName, ...) call
GetPortOther(n, h, r) ==
    /\ calls > 0
    /\ other.out = NoCall
    /\ other' = [name |-> n, hash |-> h, reducer |-> r, at |-> calls,
                 out |-> getPort(JsString(n), basePort, range, h, r)]
    /\ UNCHANGED <<REDUCERS, packageName, basePort, range, hash, reducer,
                   first, result, calls, imports, analysis>>
    /\ UNCHANGED <<REDUCER_NAMES, bench, arg, value, invoked>>

\* Object.assign(REDUCERS, {buggy: () => ret}): a caller plugs a reducer of
\* its own into the exported table
Plug(ret) ==
    /\ "buggy" \notin DOMAIN REDUCERS
    /\ REDUCERS' = [k \in DOMAIN REDUCERS \cup {"buggy"} |->
                      IF k = "buggy" THEN Fn("const", <<>>, ret)
                      ELSE REDUCERS[k]]
    /\ first' = NoCall
    /\ result' = NoCall
    /\ calls' = 0
    /\ other' = NoOther
    /\ UNCHANGED <<packageName, basePort, range, hash, reducer, imports,
                   analysis>>
    /\ invoked' = <<>>
    /\ UNCHANGED <<REDUCER_NAMES, bench, arg, value>>

\* delete REDUCERS.buggy: the caller restores the table
Unplug ==
    /\ "buggy" \in DOMAIN REDUCERS
    /\ REDUCERS' = [k \in DOMAIN REDUCERS \ {"buggy"} |-> REDUCERS[k]]
    /\ first' = NoCall
    /\ result' = NoCall
    /\ calls' = 0
    /\ other' = NoOther
    /\ UNCHANGED <<packageName, basePort, range, hash, reducer, imports,
                   analysis>>
    /\ invoked' = <<>>
    /\ UNCHANGED <<REDUCER_NAMES, bench, arg, value>>

\* analyzeImportMap(path, basePort, range, hash, reducer) on a file that
\* exists and parses to an object whose `imports` value is imports
Analyze ==
    /\ analysis = NoAnalysis
    /\ analysis' = analyzeImportMap(imports, basePort, range, hash, reducer)
    /\ UNCHANGED <<REDUCERS, packageName, basePort, range, hash, reducer,
                   first, result, calls, other, imports>>
    /\ UNCHANGED <<REDUCER_NAMES, bench, arg, value, invoked>>

\* the benchmark command on a file that exists and parses to an object whose
\* `imports` value is imports, with the options --base and --range
Benchmark ==
    /\ bench = NoBench
    /\ bench' = benchmark(imports, basePort, range, REDUCER_NAMES)
    /\ UNCHANGED <<REDUCERS, packageName, basePort, range, hash, reducer,
                   first, result, calls, other, imports, analysis,
                   REDUCER_NAMES, arg, value, invoked>>

\* the first arg.given of the caller's arguments
GivenArguments ==
    SubSeq(<<packageName, basePort, range, hash, reducer>>, 1, arg.given)

\* getPort(packageName), getPort(packageName, basePort), ...: a call that
\* omits the arguments after the first arg.given
GetPortGiven ==
    /\ arg.kind = "given"
    /\ result = NoCall
    /\ result' = getPortCall(GivenArguments)
    /\ UNCHANGED <<REDUCERS, packageName, basePort, range, hash, reducer,
                   first, calls, other, imports, analysis, REDUCER_NAMES,
                   bench, arg, value, invoked>>

\* analyzeImportMap(path), analyzeImportMap(path, basePort), ...: the path
\* counts as the first argument
AnalyzeGiven ==
    /\ arg.kind = "given"
    /\ analysis = NoAnalysis
    /\ analysis' = analyzeImportMapCall(imports, Tail(GivenArguments))
    /\ UNCHANGED <<REDUCERS, packageName, basePort, range, hash, reducer,
                   first, result, calls, other, imports, REDUCER_NAMES,
                   bench, arg, value, invoked>>

\* HASH.sdbm(name), HASH.safe(name), ...: a caller calls every hash function
\* of the table on a name
CallHashes ==
    /\ arg.kind = "name"
    /\ value.count < MaxCalls
    /\ LET out == [h \in DOMAIN HASH |-> CallHash(HASH[h], arg.name)]
       IN  value' = [kind |-> "hashes", out |-> out,
                     first |-> IF value.count = 0 THEN out ELSE value.first,
                     count |-> value.count + 1]
    /\ UNCHANGED <<REDUCERS, packageName, basePort, range, hash, reducer,
                   first, result, calls, other, imports, analysis,
                   REDUCER_NAMES, bench, arg, invoked>>

\* REDUCERS.modulo(h, r), REDUCERS.knuth(h, r), ...: a caller calls every
\* reducer of the table on a hash value and a range
CallReducers ==
    /\ arg.kind = "reduce"
    /\ value.count = 0
    /\ LET out == [f \in DOMAIN REDUCERS |->
                    CallReducer(REDUCERS[f], arg.h, arg.r)]
       IN  value' = [kind |-> "offsets", out |-> out, first |-> out,
                     count |-> 1]
    /\ UNCHANGED <<REDUCERS, packageName, basePort, range, hash, reducer,
                   first, result, calls, other, imports, analysis,
                   REDUCER_NAMES, bench, arg, invoked>>

----------------------------------------------------------------------------
(* Spec: a session of getPort calls against the built-in tables *)

Init ==
    /\ REDUCERS = BuiltinReducers
    /\ packageName \in PackageNames
    /\ basePort \in BasePorts
    /\ range \in Ranges
    /\ hash \in HashNames
    /\ reducer \in ReducerNames
    /\ first = NoCall
    /\ result = NoCall
    /\ calls = 0
    /\ other = NoOther
    /\ imports = NoImports
    /\ analysis = NoAnalysis
    /\ REDUCER_NAMES = ReducerKeys(REDUCERS)
    /\ bench = NoBench
    /\ arg = NoArg
    /\ value = NoValue
    /\ invoked = <<>>

Next ==
    \/ GetPort
    \/ \E n \in OtherNames : GetPortOther(n, hash, reducer)

Spec == Init /\ [][Next]_vars

----------------------------------------------------------------------------
(* SpecPlug: getPort calls while a caller plugs reducers into REDUCERS *)

PlugNames == {JsString(TestName), JsString(<<97>>)}
PlugBasePorts == {DefaultBasePort, MaxBasePort}
PlugRanges == {MinRange, 100, MaxRange}
PlugHashes == {"sdbm", "twin"}
PlugReducers == {"buggy", "knuth", "invalid-reducer"}
PlugOtherReducers == {"modulo", "buggy"}

\* what a plugged-in reducer returns: 999999 (the test's), -1, 100, 0, NaN
PluggedReturns == {Num(999999), Num(-1), Num(100), Num(0), NaN}

InitPlug ==
    /\ REDUCERS = BuiltinReducers
    /\ packageName \in PlugNames
    /\ basePort \in PlugBasePorts
    /\ range \in PlugRanges
    /\ hash \in PlugHashes
    /\ reducer \in PlugReducers
    /\ first = NoCall
    /\ result = NoCall
    /\ calls = 0
    /\ other = NoOther
    /\ imports = NoImports
    /\ analysis = NoAnalysis
    /\ REDUCER_NAMES = ReducerKeys(REDUCERS)
    /\ bench = NoBench
    /\ arg = NoArg
    /\ value = NoValue
    /\ invoked = <<>>

NextPlug ==
    \/ GetPort
    \/ \E r \in PlugOtherReducers : GetPortOther(AppOne, "double", r)
    \/ \E ret \in PluggedReturns : Plug(ret)
    \/ Unplug

SpecPlug == InitPlug /\ [][NextPlug]_vars

----------------------------------------------------------------------------
(* SpecAnalyze: analyzeImportMap on a parsed import map *)

MaxImports == 3

\* keys of the import maps: '', '1', '2', '11', 'a', 'b'
ImportNames == {<<>>, <<49>>, <<50>>, <<49, 49>>, <<97>>, <<98>>}

\* the sequences of at most n distinct keys
KeySeqs(n) ==
    {ks \in UNION {[1 .. k -> ImportNames] : k \in 0 .. n} :
        \A i, j \in 1 .. Len(ks) : i # j => ks[i] # ks[j]}

\* `imports` values: objects, and what is not a key/value object
ImportValues ==
    {[type |-> "object", keys |-> ks] : ks \in KeySeqs(MaxImports)}
        \cup {[type |-> t, keys |-> <<>>] : t \in {"undefined", "null", "string"}}
        \cup {[type |-> "array", keys |-> <<<<48>>, <<49>>>>]}

AnalyzeBasePorts == {MinBasePort - 1, DefaultBasePort}
AnalyzeRanges == {MinRange - 1, MinRange, 2, DefaultRange}
AnalyzeHashes == {"twin", "double", "invalid-hash"}

InitAnalyze ==
    /\ REDUCERS = BuiltinReducers
    /\ packageName = JsNull
    /\ basePort \in AnalyzeBasePorts
    /\ range \in AnalyzeRanges
    /\ hash \in AnalyzeHashes
    /\ reducer \in DOMAIN BuiltinReducers
    /\ first = NoCall
    /\ result = NoCall
    /\ calls = 0
    /\ other = NoOther
    /\ imports \in ImportValues
    /\ analysis = NoAnalysis
    /\ REDUCER_NAMES = ReducerKeys(REDUCERS)
    /\ bench = NoBench
    /\ arg = NoArg
    /\ value = NoValue
    /\ invoked = <<>>

NextAnalyze == Analyze

SpecAnalyze == InitAnalyze /\ [][NextAnalyze]_vars

----------------------------------------------------------------------------
(* SpecBench: the benchmark command on a parsed import map *)

MaxBenchImports == 4

\* keys of the benchmarked import maps: '1', 'a', 'b', 'c', 'd', ''
BenchImportNames == <<<<49>>, <<97>>, <<98>>, <<99>>, <<100>>, <<>>>>

\* the sequences of at most n of these keys, in the order of the file
BenchKeySeqs(n) ==
    {[i \in 1 .. Len(at) |-> BenchImportNames[at[i]]] :
        at \in {f \in UNION {[1 .. k -> 1 .. Len(BenchImportNames)] :
                                k \in 0 .. n} :
                  \A i, j \in 1 .. Len(f) : i < j => f[i] < f[j]}}

\* the keys of an import map of six packages: 'acg', 'epn', 'gof', 'jce',
\* 'nyi', 'tgp'
SixPackages ==
    <<<<97, 99, 103>>, <<101, 112, 110>>, <<103, 111, 102>>,
      <<106, 99, 101>>, <<110, 121, 105>>, <<116, 103, 112>>>>

\* `imports` values: objects, and a file without an imports field
BenchImportValues ==
    {[type |-> "object", keys |-> ks] :
        ks \in BenchKeySeqs(MaxBenchImports) \cup {SixPackages}}
        \cup {NoImports}

BenchBasePorts == {MinBasePort - 1, DefaultBasePort, MaxPortNumber}
BenchRanges ==
    {MinCliRange - 1, MinRange, 2, 3, DefaultRange, MaxRange + 1}

\* the REDUCERS table when the command line module loads: the built-in one,
\* one with a constant reducer plugged in, one whose knuth was replaced
BenchTables ==
    {BuiltinReducers}
        \cup {[k \in DOMAIN BuiltinReducers \cup {"buggy"} |->
                 IF k = "buggy" THEN Fn("const", <<>>, ret)
                 ELSE BuiltinReducers[k]] :
               ret \in {Num(999999), Num(0), NaN}}
        \cup {[BuiltinReducers EXCEPT !.knuth = Fn("const", <<>>, Num(-1))]}

InitBench ==
    /\ REDUCERS \in BenchTables
    /\ packageName = JsNull
    /\ basePort \in BenchBasePorts
    /\ range \in BenchRanges
    /\ hash = "twin"
    /\ reducer = "knuth"
    /\ first = NoCall
    /\ result = NoCall
    /\ calls = 0
    /\ other = NoOther
    /\ imports \in BenchImportValues
    /\ analysis = NoAnalysis
    /\ REDUCER_NAMES = ReducerKeys(REDUCERS)
    /\ bench = NoBench
    /\ arg = NoArg
    /\ value = NoValue
    /\ invoked = <<>>

NextBench == Benchmark

SpecBench == InitBench /\ [][NextBench]_vars

----------------------------------------------------------------------------
(* SpecTables: direct calls of the functions of HASH and REDUCERS *)

MaxSmallRange == 9

\* names: the short strings ("" included), the tests' names, and names of
\* the code units 0 and 0xFFFF
HashedNames ==
    Strings(MaxNameLen) \cup TestNames \cup {<<0>>, <<65535, 65535, 65535>>}

\* hash values: the corners of [0, 2^32) and the values around 2^31
HashValues ==
    {0, 1, B15 - 1, B15, B16 - 1} \X {0, 1, B15, B16 - 2, B16 - 1}

\* ranges: the small ones, the default, powers of two and their neighbours,
\* and the largest
ReducedRanges ==
    (MinRange .. MaxSmallRange)
        \cup {DefaultRange, 4096, 8191, 8192, 8193, MaxRange - 1, MaxRange}

InitTables ==
    /\ REDUCERS = BuiltinReducers
    /\ packageName = JsNull
    /\ basePort = DefaultBasePort
    /\ range = DefaultRange
    /\ hash = "twin"
    /\ reducer = "knuth"
    /\ first = NoCall
    /\ result = NoCall
    /\ calls = 0
    /\ other = NoOther
    /\ imports = NoImports
    /\ analysis = NoAnalysis
    /\ REDUCER_NAMES = ReducerKeys(REDUCERS)
    /\ bench = NoBench
    /\ arg \in {[kind |-> "name", name |-> n, h |-> <<0, 0>>, r |-> 0,
                  given |-> 0] :
                    n \in HashedNames}
                \cup {[kind |-> "reduce", name |-> <<>>, h |-> h, r |-> r,
                       given |-> 0] :
                        h \in HashValues, r \in ReducedRanges}
    /\ value = NoValue
    /\ invoked = <<>>

NextTables == CallHashes \/ CallReducers

SpecTables == InitTables /\ [][NextTables]_vars

----------------------------------------------------------------------------
(* SpecGiven: calls of getPort and analyzeImportMap that omit arguments *)

\* the parameters of getPort and analyzeImportMap
MaxGiven == 5

GivenNames ==
    {JsString(n) : n \in {<<>>, <<97>>, AppOne, AppTwo, TestName}}
        \cup {JsNull}
GivenBasePorts == {MinBasePort - 1, DefaultBasePort, 5000}
GivenRanges == {100, DefaultRange, MaxRange + 1}
GivenHashes == {"twin", "sdbm", "invalid-hash"}
GivenReducers == {"knuth", "lcg"}
GivenImports ==
    {NoImports}
        \cup {[type |-> "object", keys |-> ks] :
                ks \in {<<>>, <<AppOne, AppTwo>>, <<<<97>>, <<>>>>}}

InitGiven ==
    /\ REDUCERS = BuiltinReducers
    /\ packageName \in GivenNames
    /\ basePort \in GivenBasePorts
    /\ range \in GivenRanges
    /\ hash \in GivenHashes
    /\ reducer \in GivenReducers
    /\ first = NoCall
    /\ result = NoCall
    /\ calls = 0
    /\ other = NoOther
    /\ imports \in GivenImports
    /\ analysis = NoAnalysis
    /\ REDUCER_NAMES = ReducerKeys(REDUCERS)
    /\ bench = NoBench
    /\ arg \in {[NoArg EXCEPT !.kind = "given", !.given = k] :
                    k \in 1 .. MaxGiven}
    /\ value = NoValue
    /\ invoked = <<>>

NextGiven == GetPortGiven \/ AnalyzeGiven

SpecGiven == InitGiven /\ [][NextGiven]_vars

----------------------------------------------------------------------------
(* SpecSession: getPort, analyze and benchmark calls of one session *)

SessionTables ==
    {BuiltinReducers,
     [k \in DOMAIN BuiltinReducers \cup {"buggy"} |->
        IF k = "buggy" THEN Fn("const", <<>>, Num(999999))
        ELSE BuiltinReducers[k]]}
SessionNames == {JsString(AppOne), JsString(<<>>), JsNull}
SessionBasePorts == {MinBasePort - 1, DefaultBasePort}
SessionRanges == {MinRange - 1, 2, DefaultRange}
SessionHashes == {"twin", "hasOwnProperty", "__proto__"}
SessionReducers == {"knuth", "buggy", "__proto__"}
SessionImports ==
    {NoImports}
        \cup {[type |-> "object", keys |-> ks] :
                ks \in {<<>>, <<AppOne, AppTwo>>, <<<<97>>, <<98>>, <<>>>>}}

InitSession ==
    /\ REDUCERS \in SessionTables
    /\ packageName \in SessionNames
    /\ basePort \in SessionBasePorts
    /\ range \in SessionRanges
    /\ hash \in SessionHashes
    /\ reducer \in SessionReducers
    /\ first = NoCall
    /\ result = NoCall
    /\ calls = 0
    /\ other = NoOther
    /\ imports \in SessionImports
    /\ analysis = NoAnalysis
    /\ REDUCER_NAMES = ReducerKeys(REDUCERS)
    /\ bench = NoBench
    /\ arg = NoArg
    /\ value = NoValue
    /\ invoked = <<>>

NextSession == GetPort \/ Analyze \/ Benchmark

SpecSession == InitSession /\ [][NextSession]_vars

----------------------------------------------------------------------------
(* Properties *)

\* the caller passed a non-empty string
NameGiven == packageName.type = "string" /\ packageName.chars # <<>>
BaseGiven == MinBasePort <= basePort /\ basePort <= MaxBasePort
RangeGiven == MinRange <= range /\ range <= MaxRange

\* C1: for a non-empty name, a base port in [1024, 65535], a range in
\* [1, 10000] and each of the 5 x 3 built-in strategies, getPort returns an
\* integer port p with basePort <= p < basePort + range, and does not fail.
C1_PortInRange ==
    (/\ calls > 0
     /\ NameGiven /\ BaseGiven /\ RangeGiven
     /\ hash \in DOMAIN HASH
     /\ reducer \in DOMAIN BuiltinReducers)
    => /\ result.kind = "return"
       /\ ~result.port.nan
       /\ basePort <= result.port.val
       /\ result.port.val < basePort + range

C1_Witness ==
    /\ calls > 0
    /\ packageName = JsString(UnicodeName)
    /\ basePort = MaxBasePort
    /\ range = MaxRange
    /\ hash = "double"
    /\ reducer = "lcg"
    /\ result.kind = "return"
    /\ result.port.val > basePort

C3_UnknownNamesFallBack ==
    (/\ calls > 0
     /\ NameGiven /\ BaseGiven /\ RangeGiven
     /\ hash \notin DOMAIN HASH \/ reducer \notin DOMAIN REDUCERS)
    => /\ result.kind = "return"
       /\ result = getPort(packageName, basePort, range,
                           IF hash \in DOMAIN HASH THEN hash ELSE "twin",
                           IF reducer \in DOMAIN REDUCERS THEN reducer
                           ELSE "knuth")

\* C4: getPort fails with InvalidIdentifier for an empty name or a value
\* that is no string, whatever the other arguments are.
C4_InvalidIdentifier ==
    (calls > 0 /\ ~NameGiven) => result = Throw(InvalidIdentifier)

C4_Witness ==
    /\ calls > 0
    /\ packageName = JsString(<<>>)
    /\ basePort = MaxBasePort + 1
    /\ range = MinRange - 1
    /\ result = Throw(InvalidIdentifier)

\* C5: with a valid name, getPort fails with InvalidBasePort exactly when
\* basePort < 1024 or basePort > 65535 (1024 and 65535 are accepted).
C5_InvalidBasePort ==
    (calls > 0 /\ NameGiven)
    => (result = Throw(InvalidBasePort) <=> ~BaseGiven)

C5_Witness ==
    /\ calls > 0
    /\ NameGiven
    /\ basePort = MinBasePort - 1
    /\ range = MaxRange + 1
    /\ result = Throw(InvalidBasePort)

\* C6: with a valid name and base port, getPort fails with InvalidRange
\* exactly when range < 1 or range > 10000 (1 and 10000 are accepted).
C6_InvalidRange ==
    (calls > 0 /\ NameGiven /\ BaseGiven)
    => (result = Throw(InvalidRange) <=> ~RangeGiven)

C6_Witness ==
    /\ calls > 0
    /\ NameGiven /\ BaseGiven
    /\ range = MaxRange + 1
    /\ hash = "hasOwnProperty"
    /\ result = Throw(InvalidRange)

\* C7: if the reducer found in REDUCERS returns an offset that is not
\* within [0, range), getPort fails with ImplementationInvariantViolated,
\* and getPort never returns a value outside [basePort, basePort + range).
C7_FaultyReducerCaught ==
    /\ (/\ calls > 0
        /\ reducer \in DOMAIN REDUCERS
        /\ REDUCERS[reducer].fn = "const"
        /\ \/ REDUCERS[reducer].ret.nan
           \/ REDUCERS[reducer].ret.val < 0
           \/ REDUCERS[reducer].ret.val >= range)
       => result = Throw(ImplementationInvariantViolated)
    /\ result.kind = "return"
       => /\ ~result.port.nan
          /\ basePort <= result.port.val
          /\ result.port.val < basePort + range

\* two successful calls for different names and the same other arguments
TwoNames ==
    /\ result.kind = "return"
    /\ other.out.kind = "return"
    /\ JsString(other.name) # packageName
    /\ other.hash = hash
    /\ other.reducer = reducer

InputKeys == {imports.keys[i] : i \in 1 .. Len(imports.keys)}

RECURSIVE SumOfLengths(_)
SumOfLengths(ports) ==
    IF ports = <<>> THEN 0
    ELSE Len(Head(ports).packages) + SumOfLengths(Tail(ports))

\* the places <<j, i>> of the ports lists that hold the identifier k
PlacesOf(k) ==
    {<<j, i>> \in (1 .. Len(analysis.ports)) \X (1 .. Len(imports.keys)) :
        /\ i <= Len(analysis.ports[j].packages)
        /\ analysis.ports[j].packages[i] = k}

\* C9: after a successful analysis the lengths of the ports lists sum to the
\* number of input identifiers, no list is empty, each identifier is in
\* exactly one list, and entries maps every identifier listed under a port
\* to that port.
C9_PortsPartition ==
    analysis.kind = "return"
    => /\ SumOfLengths(analysis.ports) = Len(imports.keys)
       /\ \A j \in 1 .. Len(analysis.ports) :
            analysis.ports[j].packages # <<>>
       /\ \A k \in InputKeys : Cardinality(PlacesOf(k)) = 1
       /\ \A j \in 1 .. Len(analysis.ports) :
            \A i \in 1 .. Len(analysis.ports[j].packages) :
                \E e \in 1 .. Len(analysis.entries) :
                    /\ analysis.entries[e].name
                        = analysis.ports[j].packages[i]
                    /\ analysis.entries[e].port = analysis.ports[j].port

C9_Witness ==
    /\ analysis.kind = "return"
    /\ Len(imports.keys) = 3
    /\ Len(analysis.ports) = 2
    /\ range = 2

\* C10: after a successful analysis entries has exactly one key for each
\* input identifier, with the port getPort returns for it under the same
\* parameters; for no identifiers, entries and ports are empty.
C10_EntriesAreGetPort ==
    analysis.kind = "return"
    => /\ Len(analysis.entries) = Len(imports.keys)
       /\ {analysis.entries[e].name : e \in 1 .. Len(analysis.entries)}
            = InputKeys
       /\ \A e \in 1 .. Len(analysis.entries) :
            getPort(JsString(analysis.entries[e].name), basePort, range,
                    hash, reducer) = Return(analysis.entries[e].port)
       /\ imports.keys = <<>>
          => analysis.entries = <<>> /\ analysis.ports = <<>>

C10_Witness ==
    /\ analysis.kind = "return"
    /\ Len(analysis.entries) = 3
    /\ hash = "double"
    /\ reducer = "lcg"
    /\ range = DefaultRange

Min(a, b) == IF a <= b THEN a ELSE b

\* C11: for n distinct identifiers and a valid range, a successful analysis
\* has at most min(n, range) ports, every port key lies in
\* [basePort, basePort + range), and when n > range some ports list has two
\* or more members.
C11_AtMostRangePorts ==
    (analysis.kind = "return" /\ RangeGiven)
    => /\ Len(analysis.ports) <= Min(Len(imports.keys), range)
       /\ \A j \in 1 .. Len(analysis.ports) :
            /\ ~analysis.ports[j].port.nan
            /\ basePort <= analysis.ports[j].port.val
            /\ analysis.ports[j].port.val < basePort + range
       /\ \A j, k \in 1 .. Len(analysis.ports) :
            j # k => analysis.ports[j].port # analysis.ports[k].port
       /\ Len(imports.keys) > range
          => \E j \in 1 .. Len(analysis.ports) :
                Len(analysis.ports[j].packages) >= 2

C11_Witness ==
    /\ analysis.kind = "return"
    /\ Len(imports.keys) = 3
    /\ range = 2
    /\ Len(analysis.ports) = 2
    /\ \E j \in 1 .. 2 : Len(analysis.ports[j].packages) = 2

\* C12: when `imports` is absent, null or no key/value mapping (a string, an
\* array), the analysis fails with MalformedInput and computes no port.
C12_MalformedInput ==
    (analysis.kind # "none" /\ imports.type # "object")
    => analysis = AnalysisThrow(MalformedInput)

\* the errors of the getPort calls that fail for an identifier of the map
FailuresOfKeys ==
    {getPort(JsString(k), basePort, range, hash, reducer).error :
        k \in {n \in InputKeys :
                getPort(JsString(n), basePort, range, hash, reducer).kind
                    = "throw"}}

\* C13: if getPort fails for an identifier of the input set, wherever it is
\* in the set, the analysis fails with the error of a failing identifier and
\* has neither entries nor ports.
C13_NoPartialResult ==
    (/\ analysis.kind # "none"
     /\ ~InvalidImports(imports)
     /\ FailuresOfKeys # {})
    => /\ analysis.kind = "throw"
       /\ analysis.error \in FailuresOfKeys
       /\ analysis.entries = <<>>
       /\ analysis.ports = <<>>

C13_Witness ==
    /\ imports.type = "object"
    /\ Len(imports.keys) = 3
    /\ imports.keys[3] = <<>>
    /\ BaseGiven /\ RangeGiven
    /\ analysis = AnalysisThrow(InvalidIdentifier)

\* the (hash, reducer) pairs of the ranking, as the JSON output names them
ResultPairs ==
    {<<ToLowerCase(bench.results[i].hash),
       ToLowerCase(bench.results[i].reducer)>> :
        i \in 1 .. Len(bench.results)}

\* C14: when no combination fails, the benchmark has |HASH| x |REDUCERS|
\* results (15 for the three built-in reducer names), one for each
\* (hash, reducer) pair and no pair twice.
C14_OneResultPerCombination ==
    (bench.kind = "done" /\ bench.warnings = <<>>)
    => /\ Len(bench.results)
            = Cardinality(DOMAIN HASH) * Cardinality(DOMAIN REDUCERS)
       /\ DOMAIN REDUCERS = DOMAIN BuiltinReducers
          => Len(bench.results) = 15
       /\ ResultPairs = (DOMAIN HASH) \X (DOMAIN REDUCERS)
       /\ Cardinality(ResultPairs) = Len(bench.results)

C14_Witness ==
    /\ bench.kind = "done"
    /\ bench.warnings = <<>>
    /\ Len(imports.keys) = 3
    /\ Len(bench.results) = 15
    /\ bench.results[1].collisions < bench.results[15].collisions

\* the place of a result's combination in the enumeration: hash-major over
\* the hash names, reducer-minor over the reducer names
EnumerationIndex(r) ==
    LET h == CHOOSE k \in 1 .. Len(HASH_NAMES) :
                HASH_NAMES[k] = ToLowerCase(r.hash)
        d == CHOOSE k \in 1 .. Len(REDUCER_NAMES) :
                REDUCER_NAMES[k] = ToLowerCase(r.reducer)
    IN  (h - 1) * Len(REDUCER_NAMES) + d

\* C15: the ranking is ordered by ascending collision count, then by
\* descending unique-port count, and results equal on both keep their
\* enumeration order; the best combination is the first entry and the worst
\* is the last.
C15_Ranking ==
    bench.kind = "done"
    => /\ \A i, j \in 1 .. Len(bench.results) :
            i < j
            => LET a == bench.results[i]
                   b == bench.results[j]
               IN  \/ a.collisions < b.collisions
                   \/ /\ a.collisions = b.collisions
                      /\ a.uniquePorts > b.uniquePorts
                   \/ /\ a.collisions = b.collisions
                      /\ a.uniquePorts = b.uniquePorts
                      /\ EnumerationIndex(a) < EnumerationIndex(b)
       /\ Len(bench.results) > 0 => bench.best = <<bench.results[1]>>
       /\ Len(bench.results) > 1
          => bench.worst = <<bench.results[Len(bench.results)]>>

C15_Witness ==
    /\ bench.kind = "done"
    /\ Len(bench.results) = 15
    /\ bench.best # bench.worst
    /\ \E i \in 1 .. 14 :
          /\ bench.results[i].collisions = bench.results[i + 1].collisions
          /\ bench.results[i].uniquePorts > bench.results[i + 1].uniquePorts
    /\ \E i \in 1 .. 14 :
          /\ bench.results[i].collisions = bench.results[i + 1].collisions
          /\ bench.results[i].uniquePorts = bench.results[i + 1].uniquePorts
    /\ \E i \in 1 .. 14 :
          bench.results[i].collisions < bench.results[i + 1].collisions

\* the options pass the option parsers and parsePortOptions
CliOptionsGiven ==
    /\ MinCliBasePort <= basePort
    /\ MinCliRange <= range
    /\ basePort + range <= MaxPortNumber

\* the analysis of the import map under one combination
AnalysisUnder(h, r) == analyzeImportMap(imports, basePort, range, h, r)

\* C16: a combination whose analysis fails is reported and is absent from
\* the ranking, every other combination is ranked, and the benchmark
\* completes; there are as many results as combinations that did not fail
\* (15 minus the failed ones for the three built-in reducer names).
C16_FailuresIsolated ==
    (bench.kind # "none" /\ CliOptionsGiven /\ imports.type = "object")
    => /\ bench.kind = "done"
       /\ \A h \in DOMAIN HASH, r \in DOMAIN REDUCERS :
            LET done == AnalysisUnder(h, r)
            IN  IF done.kind = "throw"
                THEN /\ <<h, r>> \notin ResultPairs
                     /\ \E w \in 1 .. Len(bench.warnings) :
                            bench.warnings[w] = Warning(h, r, done.error)
                ELSE <<h, r>> \in ResultPairs
       /\ Len(bench.results) + Len(bench.warnings)
            = Cardinality(DOMAIN HASH) * Cardinality(DOMAIN REDUCERS)
       /\ DOMAIN REDUCERS = DOMAIN BuiltinReducers
          => Len(bench.results) = 15 - Len(bench.warnings)

C16_Witness ==
    /\ bench.kind = "done"
    /\ Len(imports.keys) = 4
    /\ Len(bench.warnings) = 5
    /\ Len(bench.results) = 10
    /\ bench.warnings[1].error = ImplementationInvariantViolated
    /\ bench.best # bench.worst

\* the identifiers of an analysis that share their port with another one
Colliding(done) ==
    {e \in 1 .. Len(done.entries) :
        \E f \in 1 .. Len(done.entries) :
            f # e /\ done.entries[f].port = done.entries[e].port}

\* C17: the collision count of a ranked combination is the number of
\* identifiers that share their port with at least one other identifier
\* (the sum of the sizes of the ports lists with more than one member, not
\* the number of excess identifiers), and the unique-port count is the
\* number of keys of the ports map.
C17_CollisionCount ==
    bench.kind = "done"
    => \A i \in 1 .. Len(bench.results) :
         LET done == AnalysisUnder(ToLowerCase(bench.results[i].hash),
                                   ToLowerCase(bench.results[i].reducer))
         IN  /\ done.kind = "return"
             /\ bench.results[i].collisions = Cardinality(Colliding(done))
             /\ bench.results[i].uniquePorts = Len(done.ports)
             /\ bench.results[i].uniquePorts
                  = Cardinality({done.entries[e].port :
                                    e \in 1 .. Len(done.entries)})

C17_Witness ==
    /\ bench.kind = "done"
    /\ Len(imports.keys) = 4
    /\ \E i \in 1 .. Len(bench.results) :
          /\ bench.results[i].collisions = 4
          /\ bench.results[i].uniquePorts = 2
    /\ \E i \in 1 .. Len(bench.results) :
          /\ bench.results[i].collisions = 3
          /\ bench.results[i].uniquePorts = 2

\* C18: for a hash value in [0, 2^32) and a range in [1, 10000], each of
\* modulo, knuth and lcg returns an integer offset with 0 <= offset < range;
\* for range = 1 every reducer returns 0.
C18_OffsetInRange ==
    value.kind = "offsets"
    => \A f \in {"modulo", "knuth", "lcg"} :
         /\ ~value.out[f].nan
         /\ 0 <= value.out[f].val
         /\ value.out[f].val < arg.r
         /\ arg.r = 1 => value.out[f] = Num(0)

C18_Witness ==
    /\ value.kind = "offsets"
    /\ arg.h = <<B16 - 1, B16 - 1>>
    /\ arg.r = MaxRange
    /\ \A f \in {"modulo", "knuth", "lcg"} : value.out[f].val > 0

\* C19: each of the five hash functions returns, for every character
\* sequence and the empty one, an integer in [0, 2^32), and returns the same
\* value when it is called again.
C19_HashTotal ==
    value.kind = "hashes"
    => /\ DOMAIN value.out = {"sdbm", "safe", "twin", "cascade", "double"}
       /\ \A h \in DOMAIN value.out :
            /\ Hi(value.out[h]) \in 0 .. B16 - 1
            /\ Lo(value.out[h]) \in 0 .. B16 - 1
       /\ value.out = value.first

C19_Witness ==
    /\ value.kind = "hashes"
    /\ value.count = 2
    /\ arg.name = <<>>
    /\ value.out["twin"] = <<0, 0>>
    /\ value.out["double"] # <<0, 0>>

\* the caller's argument at place i, or the documented default when the
\* call omits it
GivenOr(i, argument, default) == IF i <= arg.given THEN argument ELSE default

C21_BoundsSurfaced ==
    (imports.type = "object" /\ (~BaseGiven \/ ~RangeGiven))
    => /\ analysis.kind # "none"
          => /\ analysis.kind = "throw"
             /\ analysis.error \in {InvalidBasePort, InvalidRange}
       /\ bench.kind # "none"
          => /\ bench.kind = "exit"
             /\ bench.error \in {InvalidBasePort, InvalidRange}

\* the place of the identifier k in the input identifier sequence
PositionOf(k) == CHOOSE i \in 1 .. Len(imports.keys) : imports.keys[i] = k

\* C22: iterating entries visits the identifiers in input order, and within
\* each ports list the identifiers are in the relative order of the input
\* sequence (first encountered first, not sorted).
C22_InputOrder ==
    (analysis.kind = "return" /\ imports.type = "object")
    => /\ [e \in 1 .. Len(analysis.entries) |-> analysis.entries[e].name]
            = imports.keys
       /\ \A p \in 1 .. Len(analysis.ports) :
            \A i, j \in 1 .. Len(analysis.ports[p].packages) :
                i < j => PositionOf(analysis.ports[p].packages[i])
                            < PositionOf(analysis.ports[p].packages[j])

\* the errors of getPort's validation
ValidationErrors == {InvalidIdentifier, InvalidBasePort, InvalidRange}

\* C23: no getPort, analyze or benchmark call, successful or failing, changes
\* the REDUCERS table or the caller's identifier mapping, and a getPort call
\* that fails validation invokes neither the hash function nor the reducer.
C23_NoSharedStateMutated ==
    [][/\ REDUCERS' = REDUCERS
       /\ imports' = imports
       /\ (calls' > calls /\ result'.error \in ValidationErrors)
          => invoked' = <<>>]_vars

C23_Witness ==
    /\ calls = 2
    /\ "buggy" \in DOMAIN REDUCERS
    /\ result = Throw(InvalidBasePort)
    /\ invoked = <<>>
    /\ hash = "hasOwnProperty"
    /\ analysis = AnalysisThrow(InvalidBasePort)
    /\ bench.kind = "done"
    /\ Len(bench.warnings) = 20

(* Reference arithmetic: a number below 2^32 as its four base-256 digits,   *)
(* least significant first, computed digit by digit with carries            *)

\* the digits of n, for 0 <= n < 2^31
RefDigits(n) ==
    <<n % 256, (n \div 256) % 256, (n \div 65536) % 256, n \div 16777216>>

\* the digits from place i on of (d * p + carry) mod 2^32
RECURSIVE RefMulAddFrom(_, _, _, _)
RefMulAddFrom(d, i, p, carry) ==
    IF i > 4 THEN <<>>
    ELSE LET t == d[i] * p + carry
         IN  <<t % 256>> \o RefMulAddFrom(d, i + 1, p, t \div 256)

\* (d * p + c) mod 2^32
RefMulAdd(d, p, c) == RefMulAddFrom(d, 1, p, c)

\* the fold acc = (acc * P[i mod |P|] + code(name[i])) mod 2^32 from
\* position i on (positions are 1-based here)
RECURSIVE RefFoldFrom(_, _, _, _)
RefFoldFrom(name, P, i, acc) ==
    IF i > Len(name) THEN acc
    ELSE LET next == RefMulAdd(acc, P[((i - 1) % Len(P)) + 1], name[i])
         IN  IF Len(next) = 4 THEN RefFoldFrom(name, P, i + 1, next)
             ELSE next

\* the reference fold, as a word
RefFold(name, P, init) ==
    LET d == RefFoldFrom(name, P, 1, RefDigits(init))
    IN  <<d[4] * 256 + d[3], d[2] * 256 + d[1]>>

\* C24: primeHash(name, P, init) is the fold over 32-bit unsigned arithmetic
\* that starts with acc = init (the character count of name when init is
\* omitted) and sets acc = (acc * P[i mod |P|] + code(name[i])) mod 2^32 for
\* each position in order; sdbm, safe, twin and cascade are this fold with
\* P = [65599], [23], [31, 37] and [31, 37, 41, 43, 47].
C24_PrimeHashIsFold ==
    value.kind = "hashes"
    => /\ value.out["sdbm"] = RefFold(arg.name, <<65599>>, Len(arg.name))
       /\ value.out["safe"] = RefFold(arg.name, <<23>>, Len(arg.name))
       /\ value.out["twin"] = RefFold(arg.name, <<31, 37>>, Len(arg.name))
       /\ value.out["cascade"]
            = RefFold(arg.name, <<31, 37, 41, 43, 47>>, Len(arg.name))
       /\ primeHash(arg.name, <<31>>, Undefined)
            = RefFold(arg.name, <<31>>, Len(arg.name))
       /\ primeHash(arg.name, <<37>>, <<1>>) = RefFold(arg.name, <<37>>, 1)

C24_Witness ==
    /\ value.kind = "hashes"
    /\ arg.name = UnicodeName
    /\ value.out["sdbm"] = <<10741, 18993>>
    /\ value.out["twin"] = <<58053, 17761>>
    /\ value.out["cascade"] = <<57014, 2531>>

\* d mod 2147483647: d = t * 2^31 + low with t the top bit, and 2^31 is 1
\* modulo 2^31 - 1
RefMod2147483647(d) ==
    LET t == d[4] \div 128
        low == (d[4] % 128) * 16777216 + d[3] * 65536 + d[2] * 256 + d[1]
    IN  ((low % 2147483647) + t) % 2147483647

\* the exclusive or of two base-256 digits, bit by bit from bit k on
RECURSIVE RefXorFrom(_, _, _)
RefXorFrom(x, y, k) ==
    IF k > 7 THEN 0
    ELSE (IF (x \div Pow2(k)) % 2 # (y \div Pow2(k)) % 2 THEN Pow2(k) ELSE 0)
         + RefXorFrom(x, y, k + 1)

RefXor(a, b) == [i \in 1 .. 4 |-> RefXorFrom(a[i], b[i], 0)]

\* the digits from place i on of (a + b) mod 2^32
RECURSIVE RefAddFrom(_, _, _, _)
RefAddFrom(a, b, i, carry) ==
    IF i > 4 THEN <<>>
    ELSE LET t == a[i] + b[i] + carry
         IN  <<t % 256>> \o RefAddFrom(a, b, i + 1, t \div 256)

RefAdd(a, b) == RefAddFrom(a, b, 1, 0)

\* (d * 256^j) mod 2^32
RefShiftDigits(d, j) == SubSeq([k \in 1 .. j |-> 0] \o d, 1, 4)

\* (a * b) mod 2^32, one digit of b at a time
RECURSIVE RefMulFrom(_, _, _)
RefMulFrom(a, b, j) ==
    IF j > 4 THEN <<0, 0, 0, 0>>
    ELSE RefAdd(RefShiftDigits(RefMulAdd(a, b[j], 0), j - 1),
                RefMulFrom(a, b, j + 1))

\* 2654435761 = 0x9E3779B1
RefPhi == <<177, 121, 55, 158>>

\* ((h1 XOR (h2 * 2)) mod 2^32) * 2654435761 mod 2^32
RefDouble(name) ==
    LET h1 == RefMod2147483647(RefFoldFrom(name, <<31>>, 1,
                                           RefDigits(Len(name))))
        h2 == RefMod2147483647(RefFoldFrom(name, <<37>>, 1, RefDigits(1)))
        combined == RefXor(RefDigits(h1), RefMulAdd(RefDigits(h2), 2, 0))
        d == RefMulFrom(combined, RefPhi, 1)
    IN  <<d[4] * 256 + d[3], d[2] * 256 + d[1]>>

\* C25: HASH.double(name) is ((h1 XOR (h2 * 2)) mod 2^32) * 2654435761
\* mod 2^32 with h1 = primeHash(name, [31]) mod 2147483647 and
\* h2 = primeHash(name, [37], 1) mod 2147483647: the signed 32-bit shift and
\* multiply of the code give the value of this unsigned formula.
C25_DoubleIsUnsignedFormula ==
    value.kind = "hashes" => value.out["double"] = RefDouble(arg.name)

C25_Witness ==
    /\ value.kind = "hashes"
    /\ arg.name = UnicodeName
    /\ Hi(primeHash(arg.name, <<31>>, Undefined)) >= B15
    /\ Mod2147483647(primeHash(arg.name, <<37>>, <<1>>)) >= B15 * B15
    /\ value.out["double"] = <<19364, 17260>>

\* the digits of a word
RefDigitsOfWord(w) == <<w[2] % 256, w[2] \div 256, w[1] % 256, w[1] \div 256>>

\* 2654435769 = 0x9E3779B9
RefKnuthConstant == <<185, 121, 55, 158>>

\* k = ceil(log2(r)): the least k with 2^k >= r
RefCeilLog2(r) == CHOOSE k \in 0 .. 14 : Pow2(k) >= r /\ (k = 0 \/ Pow2(k - 1) < r)

\* ((h * 2654435769) mod 2^32) div 2^(32 - k), for k <= 16
RefKnuthTopBits(h, k) ==
    LET d == RefMulFrom(RefDigitsOfWord(h), RefKnuthConstant, 1)
    IN  (d[4] * 256 + d[3]) \div Pow2(16 - k)

\* C26: REDUCERS.knuth(h, r) is (((h * 2654435769) mod 2^32) div 2^(32 - k))
\* mod r with k = ceil(log2(r)), for h in [0, 2^32) and r in [1, 10000]; the
\* value before the final modulo is below 2^k, and for r = 1 (shift amount
\* 32) the result is 0.
C26_KnuthFormula ==
    value.kind = "offsets"
    => LET k == RefCeilLog2(arg.r)
           shifted == KnuthShifted(arg.h, arg.r)
       IN  /\ value.out["knuth"] = Num(RefKnuthTopBits(arg.h, k) % arg.r)
           /\ Hi(shifted) = 0 /\ Lo(shifted) < Pow2(k)
           /\ arg.r = 1 => value.out["knuth"] = Num(0)

\* C26 as amended: the value before the final modulo is below 2^k for
\* r >= 2; for r = 1 the shift amount 32 is taken modulo 32, so that value is
\* the whole product (h * 2654435769) mod 2^32, and the result is 0.
C26_KnuthShiftModulo32 ==
    value.kind = "offsets"
    => LET k == RefCeilLog2(arg.r)
           shifted == KnuthShifted(arg.h, arg.r)
       IN  /\ value.out["knuth"] = Num(RefKnuthTopBits(arg.h, k) % arg.r)
           /\ arg.r >= 2 => Hi(shifted) = 0 /\ Lo(shifted) < Pow2(k)
           /\ arg.r = 1
              => /\ RefDigitsOfWord(shifted)
                      = RefMulFrom(RefDigitsOfWord(arg.h), RefKnuthConstant, 1)
                 /\ value.out["knuth"] = Num(0)

C26_Witness ==
    /\ value.kind = "offsets"
    /\ arg.r = 1
    /\ arg.h = <<B16 - 1, B16 - 1>>
    /\ Hi(KnuthShifted(arg.h, arg.r)) >= B15 \div 2
    /\ value.out["knuth"] = Num(0)

\* C27: getPort validates the identifier first, then basePort, then range:
\* with several invalid arguments the error is InvalidIdentifier if the
\* identifier is invalid, otherwise InvalidBasePort if basePort is invalid,
\* otherwise InvalidRange; no hash or reducer name causes a validation error.
C27_ValidationOrder ==
    calls > 0
    => /\ ~NameGiven => result = Throw(InvalidIdentifier)
       /\ (NameGiven /\ ~BaseGiven) => result = Throw(InvalidBasePort)
       /\ (NameGiven /\ BaseGiven /\ ~RangeGiven)
          => result = Throw(InvalidRange)
       /\ (NameGiven /\ BaseGiven /\ RangeGiven)
          => result.error \notin ValidationErrors

C27_Witness ==
    /\ calls > 0
    /\ NameGiven
    /\ basePort = MaxBasePort + 1
    /\ range = MinRange - 1
    /\ hash = "invalid-hash"
    /\ reducer = "__proto__"
    /\ result = Throw(InvalidBasePort)

\* C28: every port getPort returns is a usable TCP port number, at most
\* 65535, for every basePort and range the function accepts.
C28_UsablePort ==
    result.kind = "return"
    => ~result.port.nan /\ result.port.val <= MaxPortNumber

\* the number of ports lists of an analysis with more than one member
SharedPorts(done) ==
    Cardinality({j \in 1 .. Len(done.ports) :
                    Len(done.ports[j].packages) > 1})

\* C29: for every benchmark result over n >= 1 identifiers, collisions is 0
\* or lies in [2, n] (never 1), uniquePorts lies in [1, min(n, range)],
\* collisions = 0 exactly when uniquePorts = n, and uniquePorts is
\* (n - collisions) plus the number of ports lists with more than one member.
C29_ResultCounts ==
    (bench.kind = "done" /\ Len(imports.keys) >= 1)
    => \A i \in 1 .. Len(bench.results) :
         LET n == Len(imports.keys)
             c == bench.results[i].collisions
             u == bench.results[i].uniquePorts
             done == AnalysisUnder(ToLowerCase(bench.results[i].hash),
                                   ToLowerCase(bench.results[i].reducer))
         IN  /\ c = 0 \/ (2 <= c /\ c <= n)
             /\ 1 <= u /\ u <= Min(n, range)
             /\ c = 0 <=> u = n
             /\ u = (n - c) + SharedPorts(done)

C29_Witness ==
    /\ bench.kind = "done"
    /\ Len(imports.keys) = 4
    /\ range = DefaultRange
    /\ \E i \in 1 .. Len(bench.results) :
          /\ bench.results[i].collisions = 0
          /\ bench.results[i].uniquePorts = 4
    /\ \E i \in 1 .. Len(bench.results) :
          /\ bench.results[i].collisions = 4
          /\ bench.results[i].uniquePorts = 1

\* C30: in the ranked list the best (first) combination never has fewer
\* unique ports than the worst (last) one, so the reported differences
\* winner.uniquePorts - loser.uniquePorts ('more unique ports') and
\* loser.collisions - winner.collisions ('fewer collisions') are never
\* negative.
C30_DifferencesNotNegative ==
    (bench.kind = "done" /\ Len(bench.results) > 1)
    => LET winner == bench.results[1]
           loser == bench.results[Len(bench.results)]
       IN  /\ winner.uniquePorts - loser.uniquePorts >= 0
           /\ loser.collisions - winner.collisions >= 0

=============================================================================
